---- MODULE Spec2Model ----
(***************************************************************************)
(* A model of khygl: the host-side pixel buffer (CpuTexture), the typed    *)
(* GPU texture (Texture<T>) with its create/upload/download/drop           *)
(* lifecycle, the shader/program compiler of lib.rs, the textured-quad     *)
(* renderer with its shared 1x1 texture, and the text renderer.            *)
(*                                                                         *)
(* Six specifications share the module, one per component:                 *)
(*   SpecCpu     CpuTexture: indexing, sampling, iteration, iter_index     *)
(*   SpecTex     Texture<T>: new, upload, download, drop against GL        *)
(*   SpecShader  create_shader, create_program, create_compute_program,    *)
(*               create_vert_frag_program, TextureRenderer::impl_new       *)
(*   SpecRender  RenderBuilder::go                                         *)
(*   SpecOnce    texture1x1 called from several threads                    *)
(*   SpecText    TextRenderer::render and its glyph atlas                  *)
(* Each one holds the other components' variables fixed.                   *)
(***************************************************************************)
EXTENDS Integers, Sequences, FiniteSets, TLC

VARIABLES
    cpu,        \* the CpuTexture under test: [data, size]
    cpuOp,      \* the last CpuTexture operation: its name, arguments, the
                \* buffer before it, and its outcome
    range2d,    \* the Range2d of the running iter_index(): the iterator's
                \* fields, its size_hint, and the pairs it yielded so far
    glTex,      \* the GL context's texture objects, by name
    texNext,    \* the next texture name glCreateTextures hands out
    texs,       \* the live Texture<T> values: [id, size, ty]
    texOp,      \* the last Texture operation, its arguments and outcome
    uploaded,   \* per texture name: the logical data of the last successful
                \* upload, while no other operation touched the texture
    glObjs,     \* the GL context's shader and program objects, by name
    objNext,    \* the next shader/program name the GL context hands out
    shOp,       \* the last compile/link operation: its inputs, the GL calls
                \* it issued, and its outcome
    glBound,    \* the GL context's bindings: the program in use, the texture
                \* bound to TEXTURE_2D, the bound vertex array
    rdOp,       \* the last RenderBuilder::go: the builder's fields, the GL
                \* calls it issued, and its outcome
    once,       \* TEXTURE1X1_ONCE: the state of the std::sync::Once
    val1x1,     \* TEXTURE1X1_VAL: Option<Texture<[u8; 4]>>
    whites,     \* the GL texture objects texture1x1's initializer created, by
                \* name
    threads,    \* per thread: where it is in texture1x1() and its caller
    textRenderer,   \* the TextRenderer: spacing, font, atlas
    rasterized, \* per character: how many atlas entries render_char has
                \* built for it so far
    txOp        \* the last TextRenderer::render: its arguments, the atlas
                \* before it, the glyph draws it issued, and its outcome

cpuVars == <<cpu, cpuOp>>
texVars == <<glTex, texNext, texs, texOp, uploaded>>
shVars == <<glObjs, objNext, shOp>>
iterVars == <<range2d>>
rdVars == <<glBound, rdOp>>
onceVars == <<once, val1x1, whites, threads>>
textVars == <<textRenderer, rasterized, txOp>>
vars == <<cpuVars, iterVars, texVars, shVars, rdVars, onceVars, textVars>>

\* what each specification holds fixed
besidesCpu == <<texVars, shVars, rdVars, onceVars, textVars>>
besidesTex == <<cpuVars, iterVars, shVars, rdVars, onceVars, textVars>>
besidesShader == <<cpuVars, iterVars, texVars, rdVars, onceVars, textVars>>
besidesRender == <<cpuVars, iterVars, texVars, shVars, onceVars, textVars>>
besidesOnce == <<cpuVars, iterVars, texVars, shVars, rdVars, textVars>>
besidesText == <<cpuVars, iterVars, texVars, shVars, rdVars, onceVars>>

----------------------------------------------------------------------------
(* Bounds of the model *)

\* largest width and height of a CpuTexture / Texture
MaxDim == 2
\* largest number of trailing padding elements of a CpuTexture's vector
MaxPad == 1
\* signed coordinates handed to get_clamped / get_wrapped range over
\* -MaxCoord .. MaxCoord, unsigned ones over 0 .. MaxCoord
MaxCoord == 3
\* number of texture names the GL context hands out
MaxTextures == 2
\* number of shader and program names the GL context hands out
MaxObjects == 4
\* number of threads that call texture1x1, line_x, line_y and rect
MaxThreads == 2
\* largest number of characters of a text handed to TextRenderer::render
MaxText == 3
\* largest width and height of a glyph's bounding box
MaxGlyph == 2

----------------------------------------------------------------------------
(* Values *)

\* Pixel values (T); two are enough to tell any two positions apart
Pixels == {"p0", "p1"}
NoPixel == "none"

\* usize is modelled 16 bits wide: every size and offset of the model is far
\* below it, and only the wrap of a negative isize cast to usize matters
UsizeModulus == 2 ^ 16

Ok(v) == [tag |-> "ok", val |-> v]
Panic == [tag |-> "panic", val |-> NoPixel]

Min(a, b) == IF a < b THEN a ELSE b
Max(a, b) == IF a > b THEN a ELSE b

\* all sequences over S of length exactly n
SeqsOfLen(S, n) == [1..n -> S]

----------------------------------------------------------------------------
(* CpuTexture  (texture.rs) *)

\* `x as usize` for an isize x
AsUsize(x) == IF x < 0 THEN x + UsizeModulus ELSE x

\* CpuTexture::new: assert!(data.len() >= size.0 * size.1)
CpuTextureNewOk(data, size) == Len(data) >= size[1] * size[2]

CpuTextureNew(data, size) == [data |-> data, size |-> size]

\* every CpuTexture that CpuTexture::new can build within the bounds
CpuTextures ==
    UNION { UNION { { CpuTextureNew(d, <<w, h>>) :
                        d \in { e \in SeqsOfLen(Pixels, w * h + pad) :
                                   CpuTextureNewOk(e, <<w, h>>) } }
                    : pad \in 0..MaxPad }
            : <<w, h>> \in (0..MaxDim) \X (0..MaxDim) }

\* CpuTexture::data: &self.data[..size.0 * size.1]
Data(t) == SubSeq(t.data, 1, t.size[1] * t.size[2])

\* the flat offset Index / IndexMut hand to Vec::index (0-based)
FlatOffset(t, x, y) == t.size[1] * y + x

\* a range check that trusts the vector's own bounds check
MutIndexInRange(t, x, y) == FlatOffset(t, x, y) < Len(t.data)
\* the range check of Index / IndexMut; TRUE when the index is accepted
IndexInRange(t, x, y) == ~(x >= t.size[1] \/ y >= t.size[2])

\* Vec::index: panics when the offset is outside the vector
VecIndex(v, off) == IF off < Len(v) THEN Ok(v[off + 1]) ELSE Panic

\* Index<(usize, usize)>::index
Index(t, x, y) ==
    IF ~IndexInRange(t, x, y) THEN Panic
    ELSE VecIndex(t.data, FlatOffset(t, x, y))

\* IndexMut<(usize, usize)>::index_mut followed by a store of v through the
\* returned reference: the buffer afterwards, or Panic
IndexMutStore(t, x, y, v) ==
    IF ~IndexInRange(t, x, y) \/ ~(FlatOffset(t, x, y) < Len(t.data)) THEN Panic
    ELSE Ok([t EXCEPT !.data[FlatOffset(t, x, y) + 1] = v])

\* an off-by-one upper clamp
MutClampAxis(v, n) == IF v < 0 THEN 0 ELSE IF v > n THEN n - 1 ELSE v
\* one axis of get_clamped: v is the isize coordinate, n the size as isize
ClampAxis(v, n) == IF v < 0 THEN 0 ELSE IF v >= n THEN n - 1 ELSE v

\* CpuTexture::get_clamped
GetClamped(t, x, y) ==
    Index(t, AsUsize(ClampAxis(x, t.size[1])), AsUsize(ClampAxis(y, t.size[2])))

\* the % operator of Rust on isize: the remainder truncates towards zero
TruncRem(a, n) == IF a >= 0 THEN a % n ELSE -((-a) % n)

\* the remainder operator used where rem_euclid is meant
MutRemEuclid(a, n) == TruncRem(a, n)
\* isize::rem_euclid for a divisor n > 0
RemEuclid(a, n) == LET r == TruncRem(a, n) IN IF r < 0 THEN r + n ELSE r

\* CpuTexture::get_wrapped; rem_euclid panics on a zero divisor
GetWrapped(t, x, y) ==
    IF t.size[1] = 0 \/ t.size[2] = 0 THEN Panic
    ELSE Index(t, AsUsize(RemEuclid(x, t.size[1])), AsUsize(RemEuclid(y, t.size[2])))

\* IntoIterator for &CpuTexture: self.data.iter().cloned(), collected
IntoIter(t) == [i \in 1..Len(t.data) |-> t.data[i]]

\* CpuTexture::new applied to a vector and a size: the buffer, or Panic
CpuTextureNewChecked(data, size) ==
    IF CpuTextureNewOk(data, size) THEN Ok(CpuTextureNew(data, size)) ELSE Panic

\* Range2d::new
Range2dNew(size) == [size |-> size, cur |-> <<0, 0>>]

\* Range2d::size_hint: the lower bound, which is also the upper bound
Range2dSizeHint(it) == it.size[1] * it.size[2]

\* Range2d::next: the iterator afterwards and the item, <<>> for None
Range2dNext(it) ==
    IF it.cur[2] >= it.size[2] THEN [it |-> it, item |-> <<>>]
    ELSE LET x == it.cur[1] + 1
         IN  [it |-> [it EXCEPT !.cur = IF x >= it.size[1]
                                        THEN <<0, it.cur[2] + 1>>
                                        ELSE <<x, it.cur[2]>>],
              item |-> it.cur]

\* CpuTexture::iter_index
IterIndex(t) == Range2dNew(t.size)

----------------------------------------------------------------------------
(* SpecCpu: the CpuTexture functions applied to bounded inputs *)

NoCpuOp == [name |-> "none", x |-> 0, y |-> 0, v |-> NoPixel, res |-> Panic]

CpuOp(name, x, y, v, res) == [name |-> name, x |-> x, y |-> y, v |-> v, res |-> res]

UCoords == 0..MaxCoord
ICoords == (-MaxCoord)..MaxCoord

CpuStart ==
    /\ cpu \in CpuTextures
    /\ cpuOp = [op |-> NoCpuOp, before |-> cpu]

\* the buffer component at rest, for the specifications of the others
CpuAtRest ==
    /\ cpu = CpuTextureNew(<<>>, <<0, 0>>)
    /\ cpuOp = [op |-> NoCpuOp, before |-> cpu]

\* the caller is between two calls
CpuIdle == cpuOp.op.name = "none"

\* let e = buffer[(x, y)]
DoIndex ==
    \E x \in UCoords, y \in UCoords :
        /\ CpuIdle
        /\ cpuOp' = [op |-> CpuOp("index", x, y, NoPixel, Index(cpu, x, y)), before |-> cpu]
        /\ UNCHANGED cpu

\* buffer[(x, y)] = v
DoIndexMut ==
    \E x \in UCoords, y \in UCoords, v \in Pixels :
        LET r == IndexMutStore(cpu, x, y, v) IN
        /\ CpuIdle
        /\ cpu' = IF r.tag = "ok" THEN r.val ELSE cpu
        /\ cpuOp' = [op |-> CpuOp("index_mut", x, y, v,
                                  IF r.tag = "ok" THEN Ok(v) ELSE Panic),
                     before |-> cpu]

\* buffer.get_clamped(x, y)
DoGetClamped ==
    \E x \in ICoords, y \in ICoords :
        /\ CpuIdle
        /\ cpuOp' = [op |-> CpuOp("get_clamped", x, y, NoPixel, GetClamped(cpu, x, y)),
                     before |-> cpu]
        /\ UNCHANGED cpu

\* buffer.get_wrapped(x, y)
DoGetWrapped ==
    \E x \in ICoords, y \in ICoords :
        /\ CpuIdle
        /\ cpuOp' = [op |-> CpuOp("get_wrapped", x, y, NoPixel, GetWrapped(cpu, x, y)),
                     before |-> cpu]
        /\ UNCHANGED cpu

\* buffer.data().to_vec()
DoData ==
    /\ CpuIdle
    /\ cpuOp' = [op |-> CpuOp("data", 0, 0, NoPixel, Ok(Data(cpu))), before |-> cpu]
    /\ UNCHANGED cpu

\* (&buffer).into_iter().collect()
DoIntoIter ==
    /\ CpuIdle
    /\ cpuOp' = [op |-> CpuOp("into_iter", 0, 0, NoPixel, Ok(IntoIter(cpu))),
                 before |-> cpu]
    /\ UNCHANGED cpu

\* buffer = CpuTexture::new(buffer.data, (w, h)): the vector is handed to
\* new again under another size, one that leaves at most MaxPad elements of
\* padding when it is accepted
DoNew ==
    \E w \in 0..MaxDim, h \in 0..MaxDim :
        LET r == CpuTextureNewChecked(cpu.data, <<w, h>>) IN
        /\ CpuIdle
        /\ Len(cpu.data) <= w * h + MaxPad
        /\ cpu' = IF r.tag = "ok" THEN r.val ELSE cpu
        /\ cpuOp' = [op |-> CpuOp("new", w, h, NoPixel, r), before |-> cpu]

\* no iter_index() is running
NoRange2d == [it |-> Range2dNew(<<0, 0>>), hint |-> 0, out |-> <<>>, done |-> TRUE]

IterAtRest == range2d = NoRange2d

\* let mut it = buffer.iter_index()
DoIterIndex ==
    /\ CpuIdle
    /\ cpuOp' = [op |-> CpuOp("iter_index", 0, 0, NoPixel, Ok(NoPixel)), before |-> cpu]
    /\ range2d' = [it |-> IterIndex(cpu), hint |-> Range2dSizeHint(IterIndex(cpu)),
                   out |-> <<>>, done |-> FALSE]
    /\ UNCHANGED cpu

\* it.next(), until it answers None
DoRange2dNext ==
    LET r == Range2dNext(range2d.it) IN
    /\ cpuOp.op.name = "iter_index"
    /\ ~range2d.done
    /\ range2d' = [it |-> r.it, hint |-> range2d.hint,
                   out |-> IF r.item = <<>> THEN range2d.out
                           ELSE Append(range2d.out, r.item),
                   done |-> r.item = <<>>]
    /\ UNCHANGED <<cpu, cpuOp>>

\* the caller takes the outcome of the call and goes on with the buffer
CpuReturn ==
    /\ ~CpuIdle
    /\ cpuOp' = [op |-> NoCpuOp, before |-> cpu]
    /\ UNCHANGED cpu

----------------------------------------------------------------------------
(* Texture<T> and the GL texture objects behind it  (texture.rs) *)

\* the implementations of TextureType
PixelTypes == {"f32x4", "u8x4", "u16", "u32"}

\* TextureType::size: std::mem::size_of::<Self>(), in bytes
ElemSize(ty) ==
    CASE ty = "f32x4" -> 16
      [] ty = "u8x4"  -> 4
      [] ty = "u16"   -> 2
      [] ty = "u32"   -> 4

\* TextureType::internalformat
InternalFormat(ty) ==
    CASE ty = "f32x4" -> "RGBA32F"
      [] ty = "u8x4"  -> "RGBA8"
      [] ty = "u16"   -> "R16"
      [] ty = "u32"   -> "R32UI"

\* the client-memory type of one component of T
NativeType(ty) ==
    CASE ty = "f32x4" -> "FLOAT"
      [] ty = "u8x4"  -> "UNSIGNED_BYTE"
      [] ty = "u16"   -> "UNSIGNED_SHORT"
      [] ty = "u32"   -> "UNSIGNED_INT"

\* what a driver may answer to the TEXTURE_IMAGE_TYPE query of upload: the
\* component type, or, for the normalized formats, UNSIGNED_NORMALIZED
TypeAnswers(ty) ==
    IF InternalFormat(ty) \in {"RGBA8", "R16"}
    THEN {NativeType(ty), "UNSIGNED_NORMALIZED"}
    ELSE {NativeType(ty)}

\* upload's repair of the queried type
UploadType(ty, answer) ==
    IF InternalFormat(ty) = "RGBA8" /\ answer = "UNSIGNED_NORMALIZED" THEN "UNSIGNED_BYTE"
    ELSE IF InternalFormat(ty) = "R16" /\ answer = "UNSIGNED_NORMALIZED" THEN "UNSIGNED_SHORT"
    ELSE answer

\* GL_UNPACK_ALIGNMENT and GL_PACK_ALIGNMENT: the context's initial value; the
\* repository never calls glPixelStore
PixelStoreAlignment == 4

\* bytes from one row of a pixel transfer to the next: the row's bytes rounded
\* up to the pixel-store alignment
RowStrideBytes(ty, w) ==
    ((w * ElemSize(ty) + PixelStoreAlignment - 1) \div PixelStoreAlignment)
        * PixelStoreAlignment

\* the same in elements of T (ElemSize divides the stride for every T)
RowStride(ty, w) == RowStrideBytes(ty, w) \div ElemSize(ty)

\* bytes of client memory a transfer of w x h pixels spans
TransferBytes(ty, w, h) ==
    IF w = 0 \/ h = 0 THEN 0 ELSE (h - 1) * RowStrideBytes(ty, w) + w * ElemSize(ty)

\* the same in elements of T
TransferSpan(ty, w, h) ==
    IF w = 0 \/ h = 0 THEN 0 ELSE (h - 1) * RowStride(ty, w) + w

Handles == 1..MaxTextures

\* The buffers handed to upload hold a different value at every position, so
\* that any element read from the wrong place shows; "x" is a value that is
\* none of them.
Tag(i) == ToString(i)
TexPixels == { Tag(i) : i \in 1..(MaxDim * MaxDim + MaxPad) } \cup {"x"}

UploadBuffers ==
    { CpuTextureNew([i \in 1..(size[1] * size[2] + pad) |-> Tag(i)], size) :
        size \in (0..MaxDim) \X (0..MaxDim), pad \in 0..MaxPad }

NoCpu == CpuTextureNew(<<>>, <<0, 0>>)

FreeTex == [state |-> "free", ty |-> "none", size |-> <<0, 0>>, texels |-> <<>>,
            deletes |-> 0]

NotUploaded == [valid |-> FALSE, data |-> <<>>]

TexOk(v) == [tag |-> "ok", val |-> v]
TexErr == [tag |-> "err", val |-> NoCpu]
TexPanic == [tag |-> "panic", val |-> NoCpu]

NoTexOp == [name |-> "none", id |-> 0, ty |-> "none", size |-> <<0, 0>>, arg |-> NoCpu,
            fault |-> "none", transfer |-> FALSE, chained |-> FALSE, res |-> TexOk(NoCpu)]

TexStart ==
    /\ glTex = [h \in Handles |-> FreeTex]
    /\ texNext = 1
    /\ texs = {}
    /\ texOp = NoTexOp
    /\ uploaded = [h \in Handles |-> NotUploaded]

TexAtRest == TexStart

\* the caller is between two calls (and no call has panicked)
TexIdle == texOp.name = "none"

\* glTextureStorage2D raises GL_INVALID_VALUE for a width or height below 1
StorageOk(size) == size[1] >= 1 /\ size[2] >= 1

\* Texture::new.  fault names the GL call, if any, after which the driver
\* reports an error of its own (GL_OUT_OF_MEMORY).
TextureNew ==
    \E ty \in PixelTypes, size \in (0..MaxDim) \X (0..MaxDim),
       fault \in {"none", "create", "storage", "min_filter", "mag_filter"} :
        /\ TexIdle
        /\ texNext <= MaxTextures
        /\ uploaded' = uploaded
        /\ IF fault = "create"
           THEN \* CreateTextures failed: no name, check_gl()? returns
                /\ UNCHANGED <<glTex, texNext, texs>>
                /\ texOp' = [NoTexOp EXCEPT !.name = "new", !.ty = ty, !.size = size,
                                            !.fault = fault, !.res = TexErr]
           ELSE LET id == texNext
                    stored == fault # "storage" /\ StorageOk(size)
                    obj == [state |-> "live", ty |-> ty,
                            size |-> IF stored THEN size ELSE <<0, 0>>,
                            texels |-> IF stored
                                       THEN [i \in 1..(size[1] * size[2]) |-> "undef"]
                                       ELSE <<>>,
                            deletes |-> 0]
                    ok == stored /\ fault = "none"
                IN  /\ glTex' = [glTex EXCEPT ![id] = obj]
                    /\ texNext' = texNext + 1
                    /\ texs' = IF ok THEN texs \cup {[id |-> id, size |-> size, ty |-> ty]}
                               ELSE texs
                    /\ texOp' = [NoTexOp EXCEPT !.name = "new", !.id = id, !.ty = ty,
                                                !.size = size, !.fault = fault,
                                                !.res = IF ok THEN TexOk(NoCpu) ELSE TexErr]

\* the element glTextureSubImage2D reads at 0-based offset off from the
\* pointer cpu_texture.data().as_ptr(): an element of the vector (its padding
\* included) or, past the vector's end, whatever lies there
SourceElem(t, off, junk) == IF off < Len(t.data) THEN t.data[off + 1] ELSE junk[off + 1]

\* the texels glTextureSubImage2D stores for a w x h transfer from t
SubImage(ty, w, h, t, junk) ==
    [i \in 1..(w * h) |->
        SourceElem(t, ((i - 1) \div w) * RowStride(ty, w) + ((i - 1) % w), junk)]

\* the size check of upload: assert_eq!(self.size, cpu_texture.size)
UploadSizeOk(tex, t) == tex.size = t.size

\* what may lie past the end of the vector, for a transfer that runs past it
\* (no transfer is issued when the sizes differ)
JunkFor(tex, t) ==
    IF UploadSizeOk(tex, t)
    THEN [(Len(t.data) + 1)..TransferSpan(tex.ty, tex.size[1], tex.size[2]) -> TexPixels]
    ELSE {<<>>}

\* Texture::upload
TextureUpload ==
    \E tex \in texs, t \in UploadBuffers,
       fault \in {"none", "format_query", "type_query", "transfer"} :
      \E answer \in TypeAnswers(tex.ty),
         junk \in JunkFor(tex, t) :
        LET op == [NoTexOp EXCEPT !.name = "upload", !.id = tex.id, !.ty = tex.ty,
                                  !.size = tex.size, !.arg = t, !.fault = fault]
            transfer == fault \notin {"format_query", "type_query"}
            typeOk == UploadType(tex.ty, answer) = NativeType(tex.ty)
            ok == fault = "none" /\ typeOk
        IN  /\ TexIdle
            /\ UNCHANGED <<texNext, texs>>
            /\ IF ~UploadSizeOk(tex, t)
               THEN /\ texOp' = [op EXCEPT !.fault = "none", !.res = TexPanic]
                    /\ UNCHANGED <<glTex, uploaded>>
               ELSE /\ texOp' = [op EXCEPT !.transfer = transfer,
                                           !.res = IF ok THEN TexOk(NoCpu) ELSE TexErr]
                    /\ glTex' = IF ok
                                THEN [glTex EXCEPT ![tex.id].texels =
                                        SubImage(tex.ty, tex.size[1], tex.size[2], t, junk)]
                                ELSE glTex
                    /\ uploaded' = [uploaded EXCEPT ![tex.id] =
                                      IF ok THEN [valid |-> TRUE, data |-> Data(t)]
                                      ELSE NotUploaded]

\* the values a read of a texel can give: a texel never written holds anything
UndefReads == {"x", Tag(1)}
TexelReads(texels) ==
    IF \A i \in 1..Len(texels) : texels[i] # "undef" THEN {texels}
    ELSE { [i \in 1..Len(texels) |-> IF texels[i] = "undef" THEN u[i] ELSE texels[i]] :
             u \in [1..Len(texels) -> UndefReads] }

\* glGetTextureImage raises GL_INVALID_OPERATION when the packed image needs
\* more than bufSize bytes
GetImageFits(ty, w, h, bufSize) == TransferBytes(ty, w, h) <= bufSize

\* Texture::download
TextureDownload ==
    \E tex \in texs, fault \in {"none", "format_query", "type_query", "transfer"} :
      \E pixels \in TexelReads(glTex[tex.id].texels) :
        LET len == tex.size[1] * tex.size[2]
            bufSize == ElemSize(tex.ty) * len
            ok == fault = "none" /\ GetImageFits(tex.ty, tex.size[1], tex.size[2], bufSize)
            op == [NoTexOp EXCEPT !.name = "download", !.id = tex.id, !.ty = tex.ty,
                                  !.size = tex.size, !.fault = fault,
                                  !.chained = uploaded[tex.id].valid]
        IN  /\ TexIdle
            /\ UNCHANGED <<glTex, texNext, texs>>
            /\ texOp' = [op EXCEPT !.transfer = fault \notin {"format_query", "type_query"},
                                   !.arg = CpuTextureNew(uploaded[tex.id].data, tex.size),
                                   !.res = IF ok THEN TexOk(CpuTextureNew(pixels, tex.size))
                                           ELSE TexErr]
            /\ uploaded' = [uploaded EXCEPT ![tex.id] = NotUploaded]

\* Drop for Texture: DeleteTextures, then check_gl().expect(..)
TextureDrop ==
    \E tex \in texs, fault \in {"none", "delete"} :
        /\ TexIdle
        /\ glTex' = [glTex EXCEPT ![tex.id].state = "deleted",
                                  ![tex.id].texels = <<>>,
                                  ![tex.id].deletes = @ + 1]
        /\ texs' = texs \ {tex}
        /\ texOp' = [NoTexOp EXCEPT !.name = "drop", !.id = tex.id, !.ty = tex.ty,
                                    !.size = tex.size, !.fault = fault,
                                    !.res = IF fault = "none" THEN TexOk(NoCpu) ELSE TexPanic]
        /\ uploaded' = [uploaded EXCEPT ![tex.id] = NotUploaded]
        /\ UNCHANGED texNext

\* the caller takes the outcome of the call; a panic ends the process
TexReturn ==
    /\ ~TexIdle
    /\ texOp.res.tag # "panic"
    /\ texOp' = NoTexOp
    /\ UNCHANGED <<glTex, texNext, texs, uploaded>>

----------------------------------------------------------------------------
(* The shader and program compiler  (lib.rs), TextureRenderer::impl_new *)

Stages == {"vertex", "fragment", "compute"}

\* what the driver's compiler makes of a source: it compiles without a word,
\* compiles with a warning in the log, or fails with an error in the log
Outcomes == {"clean", "warn", "fail"}

\* the info log of a compile or link; a log is a sequence of messages
InfoLog(unit, outcome) ==
    IF outcome = "clean" THEN <<>> ELSE <<[unit |-> unit, msg |-> outcome]>>

Names == 1..MaxObjects

\* a shader object: whether its last compile succeeded and whether
\* glDeleteShader was called on it; a program object: whether its last link
\* succeeded
FreeObj == [kind |-> "free", compiled |-> FALSE, deleteFlag |-> FALSE, linked |-> FALSE]

ShaderObj == [FreeObj EXCEPT !.kind = "shader"]
ProgramObj == [FreeObj EXCEPT !.kind = "program"]

GlCall(call, stage, obj) == [call |-> call, stage |-> stage, obj |-> obj]

\* Result<CompileResult, Error> and a panic
Compiled(shader, success, log) ==
    [tag |-> "ok", shader |-> shader, success |-> success, log |-> log]
GlError == [tag |-> "err", shader |-> 0, success |-> FALSE, log |-> <<>>]
ShPanic == [tag |-> "panic", shader |-> 0, success |-> FALSE, log |-> <<>>]

\* the GL state an operation works on: the objects, the next name, the calls
\* issued so far
GlState(objs, next, calls) == [objs |-> objs, next |-> next, calls |-> calls]

Issue(S, c) == [S EXCEPT !.calls = Append(@, c)]

\* glCreateShader / glCreateProgram: a fresh name
Allocate(S, obj) == [S EXCEPT !.objs[S.next] = obj, !.next = @ + 1]

IsShader(S, n) == n \in 1..(S.next - 1) /\ S.objs[n].kind = "shader"

\* create_shader.  fault names the step, if any, at which the driver reports
\* an error of its own to the check_gl() that follows: "create" at
\* glCreateShader (no object comes to be), "compile" at any later call.
CreateShaderF(S, stage, outcome, fault) ==
    LET S0 == Issue(S, GlCall("CreateShader", stage, 0)) IN
    IF fault = "create" THEN [S |-> S0, r |-> GlError]
    ELSE LET id == S.next
             S1 == Allocate(S0, ShaderObj)
         IN  LET S2 == Issue([S1 EXCEPT !.objs[id].compiled = (outcome # "fail")],
                                  GlCall("CompileShader", stage, id))
                  IN  IF fault = "compile" THEN [S |-> S2, r |-> GlError]
                      ELSE [S |-> S2,
                            r |-> Compiled(id, outcome # "fail", InfoLog(stage, outcome))]

ShaderFaults == {"none", "create", "compile"}

\* the names of a slice of shaders, in the order the loops visit them
RECURSIVE InOrder(_)
InOrder(names) ==
    IF names = {} THEN <<>>
    ELSE LET n == CHOOSE m \in names : \A k \in names : m <= k
         IN  <<n>> \o InOrder(names \ {n})

\* glAttachShader of each given name: a name that is no shader object raises
\* GL_INVALID_VALUE / GL_INVALID_OPERATION and attaches nothing
AttachAll(S, program, shaders) ==
    [S EXCEPT !.calls = @ \o [i \in 1..Cardinality(shaders) |->
                                GlCall("AttachShader", "none", InOrder(shaders)[i])]]

\* glDeleteShader of each given name: a shader attached to a program, as
\* these are, is flagged for deletion and goes with the program
DeleteShaders(S, shaders) ==
    [S EXCEPT !.objs = [n \in Names |->
                          IF n \in shaders /\ IsShader(S, n)
                          THEN [S.objs[n] EXCEPT !.deleteFlag = TRUE]
                          ELSE S.objs[n]],
              !.calls = @ \o [i \in 1..Cardinality(shaders) |->
                                GlCall("DeleteShader", "none", InOrder(shaders)[i])]]

\* create_program.  link: what the driver's linker makes of the attached
\* shaders when all of them are compiled.  fault: "link" for a driver error
\* seen by a check_gl() before the shaders are deleted, "delete" for one seen
\* by the last.
CreateProgramF(S, shaders, link, fault) ==
    LET program == S.next
        S1 == Allocate(Issue(S, GlCall("CreateProgram", "none", 0)), ProgramObj)
        S2 == AttachAll(S1, program, shaders)
        attachOk == \A n \in shaders : IsShader(S, n)
        success == /\ attachOk
                   /\ link # "fail"
                   /\ \A n \in shaders : S.objs[n].compiled
        S3 == Issue([S2 EXCEPT !.objs[program].linked = success],
                    GlCall("LinkProgram", "none", program))
        log == IF success THEN InfoLog("link", link) ELSE InfoLog("link", "fail")
    IN  IF ~attachOk \/ fault = "link" THEN [S |-> S3, r |-> GlError]
        ELSE LET S4 == DeleteShaders(S3, shaders)   \* whatever the link status
             IN  IF fault = "delete" THEN [S |-> S4, r |-> GlError]
                 ELSE [S |-> S4, r |-> Compiled(program, success, log)]

ProgramFaults == {"none", "link", "delete"}

\* a stage test that never gives up
MutStageFailed(r) == FALSE
\* `if !shader.success { return Ok(CompileResult { shader: 0, .. }) }`
StageFailed(r) == ~r.success

\* the value returned for a failed stage
FailedStage(r) == Compiled(0, r.success, r.log)

\* create_compute_program
CreateComputeProgramF(S, outcome, link, faultS, faultP) ==
    LET shader == CreateShaderF(S, "compute", outcome, faultS) IN
    IF shader.r.tag = "err" THEN shader
    ELSE IF StageFailed(shader.r) THEN [S |-> shader.S, r |-> FailedStage(shader.r)]
    ELSE CreateProgramF(shader.S, {shader.r.shader}, link, faultP)

\* create_vert_frag_program
CreateVertFragProgramF(S, vOutcome, fOutcome, link, faultV, faultF, faultP) ==
    LET vertex == CreateShaderF(S, "vertex", vOutcome, faultV) IN
    IF vertex.r.tag = "err" THEN vertex
    ELSE IF StageFailed(vertex.r) THEN [S |-> vertex.S, r |-> FailedStage(vertex.r)]
    ELSE LET fragment == CreateShaderF(vertex.S, "fragment", fOutcome, faultF) IN
         IF fragment.r.tag = "err" THEN fragment
         ELSE IF StageFailed(fragment.r)
              THEN [S |-> fragment.S, r |-> FailedStage(fragment.r)]
         ELSE LET result == CreateProgramF(fragment.S,
                                           {vertex.r.shader, fragment.r.shader},
                                           link, faultP)
              IN  IF result.r.tag = "ok" /\ result.r.success
                  THEN [result EXCEPT !.r.log = vertex.r.log \o fragment.r.log \o @]
                  ELSE result

\* TextureRenderer::impl_new, up to the renderer's program.  pending: a GL
\* error left by the caller's earlier calls; faultU: a failing uniform lookup
\* or vertex-array call after the program is built.
ImplNewF(S, pending, vOutcome, fOutcome, link, faultV, faultF, faultP, faultU) ==
    IF pending THEN [S |-> S, r |-> GlError]
    ELSE LET program == CreateVertFragProgramF(S, vOutcome, fOutcome, link,
                                               faultV, faultF, faultP)
         IN  IF program.r.tag = "err" THEN program
             ELSE IF ~program.r.success THEN [S |-> program.S, r |-> ShPanic]
             ELSE IF faultU THEN [S |-> program.S, r |-> GlError]
             ELSE program

NoShOp == [name |-> "none", stages |-> <<>>, link |-> "clean", given |-> {},
           faults |-> <<>>, calls |-> <<>>,
           res |-> Compiled(0, TRUE, <<>>)]

ShaderStart ==
    /\ glObjs = [n \in Names |-> FreeObj]
    /\ objNext = 1
    /\ shOp = NoShOp

ShaderAtRest == ShaderStart

ShIdle == shOp.name = "none"

\* room for k more names
Room(k) == objNext + k - 1 <= MaxObjects

\* the state after an operation that ran from the current state
Finish(name, stages, link, given, faults, out) ==
    /\ glObjs' = out.S.objs
    /\ objNext' = out.S.next
    /\ shOp' = [name |-> name, stages |-> stages, link |-> link, given |-> given,
                faults |-> faults, calls |-> out.S.calls,
                res |-> out.r]

Now == GlState(glObjs, objNext, <<>>)

DoCreateShader ==
    \E stage \in Stages, outcome \in Outcomes, fault \in ShaderFaults :
        /\ ShIdle /\ Room(1)
        /\ Finish("create_shader", <<[stage |-> stage, outcome |-> outcome]>>, "clean",
                  {}, <<fault>>, CreateShaderF(Now, stage, outcome, fault))

DoCreateProgram ==
    \E shaders \in { g \in SUBSET (0..(objNext - 1)) : Cardinality(g) \in 1..2 },
       link \in Outcomes, fault \in ProgramFaults :
        /\ ShIdle /\ Room(1)
        /\ Finish("create_program", <<>>, link, shaders, <<fault>>,
                  CreateProgramF(Now, shaders, link, fault))

DoCreateComputeProgram ==
    \E outcome \in Outcomes, link \in Outcomes,
       faultS \in ShaderFaults, faultP \in ProgramFaults :
        /\ ShIdle /\ Room(2)
        /\ Finish("create_compute_program",
                  <<[stage |-> "compute", outcome |-> outcome]>>, link, {},
                  <<faultS, faultP>>,
                  CreateComputeProgramF(Now, outcome, link, faultS, faultP))

DoCreateVertFragProgram ==
    \E vOutcome \in Outcomes, fOutcome \in Outcomes, link \in Outcomes,
       faultV \in ShaderFaults, faultF \in ShaderFaults, faultP \in ProgramFaults :
        /\ ShIdle /\ Room(3)
        /\ Finish("create_vert_frag_program",
                  <<[stage |-> "vertex", outcome |-> vOutcome],
                    [stage |-> "fragment", outcome |-> fOutcome]>>, link, {},
                  <<faultV, faultF, faultP>>,
                  CreateVertFragProgramF(Now, vOutcome, fOutcome, link,
                                         faultV, faultF, faultP))

\* TextureRenderer::new / new_binning
DoImplNew ==
    \E pending \in BOOLEAN, vOutcome \in Outcomes, fOutcome \in Outcomes,
       link \in Outcomes, faultV \in ShaderFaults, faultF \in ShaderFaults,
       faultP \in ProgramFaults, faultU \in BOOLEAN :
        /\ ShIdle /\ Room(3)
        /\ Finish("impl_new",
                  <<[stage |-> "vertex", outcome |-> vOutcome],
                    [stage |-> "fragment", outcome |-> fOutcome]>>, link, {},
                  <<faultV, faultF, faultP,
                    IF pending THEN "pending" ELSE IF faultU THEN "uniform" ELSE "none">>,
                  ImplNewF(Now, pending, vOutcome, fOutcome, link,
                           faultV, faultF, faultP, faultU))

\* the caller takes the outcome of the call; a panic ends the process
ShReturn ==
    /\ ~ShIdle
    /\ shOp.res.tag # "panic"
    /\ shOp' = NoShOp
    /\ UNCHANGED <<glObjs, objNext>>

----------------------------------------------------------------------------
(* TextureRenderer::render and RenderBuilder  (render_texture.rs) *)

\* f32 values are kept exact, as fractions in lowest terms with a positive
\* denominator; den = 0 stands for the non-finite result of a division by
\* zero (num = 0: NaN, else the infinity of that sign)
RECURSIVE Gcd(_, _)
Gcd(a, b) == IF b = 0 THEN a ELSE Gcd(b, a % b)

Abs(a) == IF a < 0 THEN -a ELSE a
Sign(a) == IF a < 0 THEN -1 ELSE IF a > 0 THEN 1 ELSE 0

Frac(n, d) ==
    IF d = 0 THEN [num |-> Sign(n), den |-> 0]
    ELSE LET g == Gcd(Abs(n), Abs(d))
         IN  [num |-> (Sign(d) * n) \div g, den |-> Abs(d) \div g]

\* `n as f32` for the small integers of the model
F32(n) == Frac(n, 1)

\* a / b on f32
FDiv(a, b) == Frac(a.num * b.den, a.den * b.num)

\* Rect::new
Rect(x, y, width, height) == [x |-> x, y |-> y, width |-> width, height |-> height]

\* Option<T>
None == <<>>
Some(v) == <<v>>
UnwrapOrElse(opt, default) == IF opt = None THEN default ELSE opt[1]

\* the one TextureRenderer of the model: the names impl_new got from the GL
\* context; img_size_location is Some only for the binning fragment shader
Renderer(img_size_location) ==
    [program |-> 1, dummy_buffer |-> 1, img_size_location |-> img_size_location]

\* a source rectangle that takes the width for both extents
MutDefaultSrc(texture) ==
    Rect(F32(0), F32(0), F32(texture.size[1]), F32(texture.size[1]))
\* go: the source rectangle of a builder without a src() call
DefaultSrc(texture) ==
    Rect(F32(0), F32(0), F32(texture.size[1]), F32(texture.size[2]))

\* go: the destination rectangle of a builder without a dst() call
DefaultDst(screen_size) ==
    Rect(F32(0), F32(0), screen_size[1], screen_size[2])

\* go: the tint and the scale/offset of a builder without tint() and
\* scale_offset() calls
DefaultTint == <<F32(1), F32(1), F32(1), F32(1)>>
DefaultScaleOffset == <<F32(1), F32(0)>>

\* go: the arguments of the src_pos_size and dst_pos_size uniforms
SrcPosSize(src, texture) ==
    <<FDiv(src.x, F32(texture.size[1])), FDiv(src.y, F32(texture.size[2])),
      FDiv(src.width, F32(texture.size[1])), FDiv(src.height, F32(texture.size[2]))>>
DstPosSize(dst, screen_size) ==
    <<FDiv(dst.x, screen_size[1]), FDiv(dst.y, screen_size[2]),
      FDiv(dst.width, screen_size[1]), FDiv(dst.height, screen_size[2])>>

Unbound == [program |-> 0, texture2d |-> 0, vertexArray |-> 0]

\* the context's bindings after one GL call
AfterCall(bound, call, args) ==
    CASE call = "UseProgram" -> [bound EXCEPT !.program = args[1]]
      [] call = "BindTexture" -> [bound EXCEPT !.texture2d = args[2]]
      [] call = "BindVertexArray" -> [bound EXCEPT !.vertexArray = args[1]]
      [] OTHER -> bound

\* a GL call as go issues it: what it is, its arguments
RCall(call, args) == [call |-> call, args |-> args]

\* the context after the calls cs, issued in order: each is logged with the
\* bindings in force once it is done, and the call the driver objects to
\* (fault) sets the context's error flag
RECURSIVE RunCalls(_, _, _)
RunCalls(G, cs, fault) ==
    IF cs = <<>> THEN G
    ELSE LET c == Head(cs)
             b == AfterCall(G.bound, c.call, c.args)
         IN  RunCalls([bound |-> b,
                       calls |-> Append(G.calls, [call |-> c.call, args |-> c.args,
                                                  bound |-> b]),
                       error |-> G.error \/ c.call = fault],
                      Tail(cs), fault)

\* go, lines 200-236: use the program, send the uniforms, bind the texture
\* and the vertex array, draw
BindAndDraw(r, texture, screen_size, src, dst, tint, scale_offset) ==
    <<RCall("UseProgram", <<r.program>>),
      RCall("Uniform4f", <<"src_pos_size">> \o SrcPosSize(src, texture)),
      RCall("Uniform4f", <<"dst_pos_size">> \o DstPosSize(dst, screen_size)),
      RCall("Uniform4f", <<"tint">> \o tint),
      RCall("Uniform2f", <<"scale_offset">> \o scale_offset)>>
    \o (IF r.img_size_location = None THEN <<>>
        ELSE <<RCall("Uniform2i", <<"img_size", texture.size[1], texture.size[2]>>)>>)
    \o <<RCall("BindTexture", <<"TEXTURE_2D", texture.id>>),
         RCall("BindVertexArray", <<r.dummy_buffer>>),
         RCall("DrawArrays", <<"TRIANGLE_STRIP", 0, 4>>)>>

\* an unbind that is skipped once the context has an error
MutUnbind(G) ==
    IF G.error THEN G
    ELSE RunCalls(G, <<RCall("BindVertexArray", <<0>>),
                       RCall("BindTexture", <<"TEXTURE_2D", 0>>),
                       RCall("UseProgram", <<0>>)>>, "none")
\* go, lines 237-239: unbind the vertex array, the texture and the program
Unbind(G) ==
    RunCalls(G, <<RCall("BindVertexArray", <<0>>),
                  RCall("BindTexture", <<"TEXTURE_2D", 0>>),
                  RCall("UseProgram", <<0>>)>>, "none")

\* RenderBuilder::go on the context G: the context afterwards and the result;
\* check_gl reads the error flag once, after the last call
Go(G, r, texture, screen_size, src, dst, tint, scale_offset, fault) ==
    LET drawn == RunCalls(G, BindAndDraw(r, texture, screen_size,
                                         UnwrapOrElse(src, DefaultSrc(texture)),
                                         UnwrapOrElse(dst, DefaultDst(screen_size)),
                                         UnwrapOrElse(tint, DefaultTint),
                                         UnwrapOrElse(scale_offset, DefaultScaleOffset)),
                          fault)
        done == Unbind(drawn)
    IN  [G |-> [done EXCEPT !.error = FALSE],
         res |-> IF done.error THEN "err" ELSE "ok"]

\* what the driver can object to while go runs: nothing; an error some
\* earlier call of the caller left in the context; a uniform call (a location
\* of another type); the draw (the framebuffer it draws to).  The binds
\* name objects the borrowed renderer and texture keep alive.
GoFaults == {"none", "pending", "Uniform4f", "DrawArrays"}

\* rectangles handed to src() and dst()
SomeRects == { Rect(F32(0), F32(0), F32(1), F32(1)), Rect(F32(1), F32(0), F32(1), F32(2)) }

NoRdOp ==
    [name |-> "none", texture |-> [id |-> 0, size |-> <<0, 0>>],
     screen_size |-> <<F32(0), F32(0)>>, src |-> None, dst |-> None, tint |-> None,
     scale_offset |-> None, renderer |-> Renderer(None), fault |-> "none",
     calls |-> <<>>, res |-> "none"]

\* bindings the caller left behind: a program, a texture and a vertex array
\* of its own
CallerBound == [program |-> 2, texture2d |-> 1, vertexArray |-> 2]

\* the first go() finds the context with nothing bound, or with the caller's
\* objects bound
RenderStart ==
    /\ glBound \in {Unbound, CallerBound}
    /\ rdOp = NoRdOp

RenderAtRest ==
    /\ glBound = Unbound
    /\ rdOp = NoRdOp

RdIdle == rdOp.name = "none"

\* renderer.render(&texture, screen_size)[.src(..)][.dst(..)][.tint(..)]
\*     [.scale_offset(..)].go()
DoGo ==
    /\ RdIdle
    /\ \E id \in Handles, w \in 1..MaxDim, h \in 1..MaxDim,
          sw \in 0..MaxDim, sh \in 0..MaxDim,
          src \in {None} \cup { Some(q) : q \in SomeRects },
          dst \in {None} \cup { Some(q) : q \in SomeRects },
          tint \in {None, Some(<<F32(0), F32(1), F32(0), F32(1)>>)},
          scale_offset \in {None, Some(<<F32(2), F32(1)>>)},
          img \in {None, Some("img_size")},
          fault \in GoFaults :
           LET texture == [id |-> id, size |-> <<w, h>>]
               screen_size == <<F32(sw), F32(sh)>>
               G == [bound |-> glBound, calls |-> <<>>, error |-> fault = "pending"]
           IN  \E r \in {Go(G, Renderer(img), texture, screen_size, src, dst, tint,
                             scale_offset, fault)} :
                   /\ glBound' = r.G.bound
                   /\ rdOp' = [name |-> "go", texture |-> texture,
                               screen_size |-> screen_size,
                               src |-> src, dst |-> dst, tint |-> tint,
                               scale_offset |-> scale_offset, renderer |-> Renderer(img),
                               fault |-> fault, calls |-> r.G.calls, res |-> r.res]

\* the caller takes go's result
RdReturn ==
    /\ ~RdIdle
    /\ rdOp' = NoRdOp
    /\ UNCHANGED glBound

----------------------------------------------------------------------------
(* texture1x1 and its callers line_x, line_y, rect  (render_texture.rs) *)

Threads == 1..MaxThreads

\* the pixel [255, 255, 255, 255]
White == "white"

\* a one-time initialization that only tests whether it has completed
MutOnceRunsClosure(state) == state \in {"incomplete", "running"}
\* Once::call_once runs the closure in the one caller that finds the Once
\* incomplete
OnceRunsClosure(state) == state = "incomplete"

\* the texture1x1() calls of one call from outside: a direct call, line_x,
\* line_y, or rect with its two line_x and two line_y
Callers == { <<"direct">>, <<"line_x">>, <<"line_y">>,
             <<"line_x", "line_x", "line_y", "line_y">> }

NoThread == [pc |-> "idle", todo |-> <<>>, local |-> 0, ret |-> 0]

OnceStart ==
    /\ once = "incomplete"
    /\ val1x1 = None
    /\ whites = <<>>
    /\ threads = [t \in Threads |-> NoThread]

OnceAtRest == OnceStart

\* thread t is called from outside
Begin(t) ==
    /\ threads[t].pc = "idle"
    /\ threads[t].todo = <<>>
    /\ \E work \in Callers : threads' = [threads EXCEPT ![t].todo = work]
    /\ UNCHANGED <<once, val1x1, whites>>

\* thread t enters texture1x1()
EnterTexture1x1(t) ==
    /\ threads[t].pc = "idle"
    /\ threads[t].todo # <<>>
    /\ threads' = [threads EXCEPT ![t].pc = "call_once"]
    /\ UNCHANGED <<once, val1x1, whites>>

\* TEXTURE1X1_ONCE.call_once(..): a completed Once returns at once, an
\* incomplete one runs the closure in this thread, a running one blocks the
\* thread until the runner is done, a poisoned one panics
CallOnce(t) ==
    /\ threads[t].pc = "call_once"
    /\ UNCHANGED <<val1x1, whites>>
    /\ IF once = "complete"
       THEN threads' = [threads EXCEPT ![t].pc = "read"] /\ UNCHANGED once
       ELSE IF once = "poisoned"
       THEN threads' = [threads EXCEPT ![t].pc = "panicked"] /\ UNCHANGED once
       ELSE /\ OnceRunsClosure(once)
            /\ once' = "running"
            /\ threads' = [threads EXCEPT ![t].pc = "new"]

\* the closure: Texture::new((1, 1)).expect(..).  The driver may fail the
\* creation before or after it handed out a name; the panic of expect leaves
\* the Once poisoned.
InitNew(t) ==
    /\ threads[t].pc = "new"
    /\ Len(whites) < MaxTextures
    /\ UNCHANGED val1x1
    /\ \E fault \in {"none", "create", "storage"} :
          /\ whites' = IF fault = "create" THEN whites
                       ELSE Append(whites, [state |-> "live", texels |-> <<"undef">>,
                                            uploads |-> 0])
          /\ IF fault = "none"
             THEN /\ threads' = [threads EXCEPT ![t].pc = "upload",
                                                ![t].local = Len(whites) + 1]
                  /\ UNCHANGED once
             ELSE /\ threads' = [threads EXCEPT ![t].pc = "panicked"]
                  /\ once' = "poisoned"

\* the closure: texture1x1.upload(&CpuTexture::new(vec![[255; 4]], (1, 1)))
\* .expect(..); the unwinding of a panic drops the local texture
InitUpload(t) ==
    LET id == threads[t].local IN
    /\ threads[t].pc = "upload"
    /\ UNCHANGED val1x1
    /\ \E fault \in {"none", "transfer"} :
          IF fault = "none"
          THEN /\ whites' = [whites EXCEPT ![id].texels = <<White>>,
                                           ![id].uploads = @ + 1]
               /\ threads' = [threads EXCEPT ![t].pc = "store"]
               /\ UNCHANGED once
          ELSE /\ whites' = [whites EXCEPT ![id].state = "deleted",
                                           ![id].uploads = @ + 1]
               /\ threads' = [threads EXCEPT ![t].pc = "panicked", ![t].local = 0]
               /\ once' = "poisoned"

\* the closure: TEXTURE1X1_VAL = Some(texture1x1)
InitStore(t) ==
    /\ threads[t].pc = "store"
    /\ val1x1' = Some(threads[t].local)
    /\ threads' = [threads EXCEPT ![t].pc = "done", ![t].local = 0]
    /\ UNCHANGED <<once, whites>>

\* the closure returns and call_once marks the Once complete
InitDone(t) ==
    /\ threads[t].pc = "done"
    /\ once' = "complete"
    /\ threads' = [threads EXCEPT ![t].pc = "read"]
    /\ UNCHANGED <<val1x1, whites>>

\* TEXTURE1X1_VAL.as_ref().expect(..): texture1x1() returns the reference;
\* line_x and line_y go on to draw with it
ReadVal(t) ==
    /\ threads[t].pc = "read"
    /\ UNCHANGED <<once, val1x1, whites>>
    /\ IF val1x1 = None
       THEN threads' = [threads EXCEPT ![t].pc = "panicked"]
       ELSE IF Head(threads[t].todo) = "direct"
       THEN threads' = [threads EXCEPT ![t].pc = "idle", ![t].ret = val1x1[1],
                                       ![t].todo = Tail(@)]
       ELSE threads' = [threads EXCEPT ![t].pc = "go", ![t].ret = val1x1[1]]

\* line_x / line_y: self.render(texture1x1(), screen_size).dst(..).tint(..)
\* .go(); the draw samples the texture and leaves it as it is, and an error
\* ends a rect at its `?`
LineGo(t) ==
    /\ threads[t].pc = "go"
    /\ whites[threads[t].ret].state = "live"
    /\ UNCHANGED <<once, val1x1, whites>>
    /\ \E res \in {"ok", "err"} :
          threads' = [threads EXCEPT ![t].pc = "idle",
                                     ![t].todo = IF res = "ok" THEN Tail(@) ELSE <<>>]

----------------------------------------------------------------------------
(* TextRenderer  (render_text.rs) *)

\* the characters of the texts: two letters, the space, the line break, and
\* the tab, a character whose glyph has no outline
TextChars == {"A", "B", " ", "\n", "\t"}
Texts == UNION { SeqsOfLen(TextChars, n) : n \in 0..MaxText }

\* the characters get_entry is asked for
AtlasChars == {"A", "B", "*", "\t"}

Positions == { <<0, 0>>, <<1, 2>> }

\* the fonts of the model, by the bounding box of "A"; "B" has the transposed
\* box and sits one pixel lower and further right, "*" is a single pixel
Fonts == [w : 1..MaxGlyph, h : 1..MaxGlyph]

\* TextRenderer::new: spacing = ascent - descent + line_gap
Spacing(font) == font.h + 1

\* what rusttype answers for the glyph of ch: pixel_bounding_box (bb: is there
\* one, width, height, min.y) and h_metrics (left_side_bearing and
\* advance_width, rounded up)
Glyph(font, ch) ==
    CASE ch = "A" -> [bb |-> TRUE, width |-> font.w, height |-> font.h,
                      min_y |-> 0, lsb |-> 0, advance |-> font.w + 1]
      [] ch = "B" -> [bb |-> TRUE, width |-> font.h, height |-> font.w,
                      min_y |-> 1, lsb |-> 1, advance |-> font.h + 2]
      [] ch = "*" -> [bb |-> TRUE, width |-> 1, height |-> 1,
                      min_y |-> 0, lsb |-> 0, advance |-> 3]
      [] OTHER -> [bb |-> FALSE, width |-> 0, height |-> 0,
                   min_y |-> 0, lsb |-> 0, advance |-> 1]

NoEntry == [texture |-> [id |-> 0, size |-> <<0, 0>>], x_pos |-> 0, y_pos |-> 0,
            stride |-> 0]

\* render_char: Texture::new, upload, and the AtlasEntry; id is the name of
\* the texture.  A glyph without a bounding box panics at expect(..), a GL
\* error in Texture::new or in upload is returned.
RenderChar(glyph, id, fault) ==
    IF ~glyph.bb THEN [tag |-> "panic", entry |-> NoEntry]
    ELSE IF fault \in {"new", "upload"} THEN [tag |-> "err", entry |-> NoEntry]
    ELSE [tag |-> "ok",
          entry |-> [texture |-> [id |-> id, size |-> <<glyph.width, glyph.height>>],
                     x_pos |-> glyph.lsb, y_pos |-> glyph.min_y,
                     stride |-> glyph.advance]]

\* an atlas lookup that never finds an entry
MutAtlasHit(atlas, ch) == FALSE
\* get_entry: Entry::Occupied
AtlasHit(atlas, ch) == atlas[ch] # NoEntry

\* get_entry in the running render st: the entry is st.entry afterwards
GetEntry(font, st, ch) ==
    IF AtlasHit(st.atlas, ch) THEN [st EXCEPT !.entry = st.atlas[ch]]
    ELSE LET n == Min(st.rasterized[ch] + 1, MaxTextures)
             r == RenderChar(Glyph(font, ch), n, st.fault)
         IN  IF r.tag = "ok"
             THEN [st EXCEPT !.atlas[ch] = r.entry, !.rasterized[ch] = n,
                             !.entry = r.entry]
             ELSE [st EXCEPT !.tag = r.tag, !.failed = ch]

\* a line break that keeps the cursor's x
MutNewlineX(position, x) == x
\* render, line 85: x = position.0 as isize
NewlineX(position, x) == position[1]

\* render, line 106: the extent of the glyph that max_y takes in
MaxYExtent(tex) == tex.texture.size[1]

\* render, lines 83-107: the loop body for the i-th character of the text
RenderStep(tr, st, text, position, i) ==
    LET ch == text[i] IN
    IF ch = "\n"
    THEN [st EXCEPT !.y = @ + tr.spacing, !.x = NewlineX(position, st.x)]
    ELSE IF ch = " "
    THEN LET s == GetEntry(tr.font, st, "*")
         IN  IF s.tag # "ok" THEN s ELSE [s EXCEPT !.x = @ + s.entry.stride]
    ELSE LET s == GetEntry(tr.font, st, ch)
             tex == s.entry
             dst == Rect(F32(s.x + tex.x_pos), F32(s.y + tex.y_pos),
                         F32(tex.texture.size[1]), F32(tex.texture.size[2]))
             drawn == [s EXCEPT !.draws = Append(@, [at |-> i, ch |-> ch,
                                                     x |-> s.x, y |-> s.y, dst |-> dst,
                                                     texture |-> tex.texture])]
         IN  IF s.tag # "ok" THEN s
             ELSE IF s.fault = "go" THEN [drawn EXCEPT !.tag = "err"]
             ELSE [drawn EXCEPT !.x = @ + tex.stride,
                                !.max_x = Max(@, s.x + tex.stride),
                                !.max_y = Max(@, s.y + tex.y_pos + MaxYExtent(tex))]

RECURSIVE RenderLoop(_, _, _, _, _)
RenderLoop(tr, st, text, position, i) ==
    IF i > Len(text) \/ st.tag # "ok" THEN st
    ELSE RenderLoop(tr, RenderStep(tr, st, text, position, i), text, position, i + 1)

\* TextRenderer::render: the state the loop ends in, and the rectangle
Render(tr, counts, text, position, fault) ==
    LET st == RenderLoop(tr, [x |-> position[1], y |-> position[2],
                              max_x |-> position[1], max_y |-> position[2],
                              atlas |-> tr.atlas, rasterized |-> counts,
                              draws |-> <<>>, fault |-> fault, tag |-> "ok",
                              failed |-> "", entry |-> NoEntry],
                         text, position, 1)
    IN  [st |-> st,
         rect |-> IF st.tag = "ok"
                  THEN Rect(position[1], position[2],
                            AsUsize(st.max_x) - position[1],
                            AsUsize(st.max_y) - position[2])
                  ELSE Rect(0, 0, 0, 0)]

\* what the driver can object to during one render: nothing, every
\* Texture::new, every upload, or every go
TextFaults == {"none", "new", "upload", "go"}

NoTxOp == [name |-> "none", text |-> <<>>, position |-> <<0, 0>>, fault |-> "none",
           before |-> [ch \in AtlasChars |-> NoEntry], draws |-> <<>>,
           rect |-> Rect(0, 0, 0, 0), failed |-> "", res |-> "none"]

TextStart ==
    /\ \E font \in Fonts :
          textRenderer = [spacing |-> Spacing(font), font |-> font,
                          atlas |-> [ch \in AtlasChars |-> NoEntry]]
    /\ rasterized = [ch \in AtlasChars |-> 0]
    /\ txOp = NoTxOp

TextAtRest ==
    /\ textRenderer = [spacing |-> 0, font |-> [w |-> 0, h |-> 0],
                       atlas |-> [ch \in AtlasChars |-> NoEntry]]
    /\ rasterized = [ch \in AtlasChars |-> 0]
    /\ txOp = NoTxOp

TxIdle == txOp.name = "none"

\* text_renderer.render(&renderer, text, color, position, screen_size)
DoRender ==
    /\ TxIdle
    /\ \E text \in Texts, position \in Positions, fault \in TextFaults :
          \E r \in {Render(textRenderer, rasterized, text, position, fault)} :
              /\ textRenderer' = [textRenderer EXCEPT !.atlas = r.st.atlas]
              /\ rasterized' = r.st.rasterized
              /\ txOp' = [name |-> "render", text |-> text, position |-> position,
                          fault |-> fault, before |-> textRenderer.atlas,
                          draws |-> r.st.draws, rect |-> r.rect,
                          failed |-> r.st.failed, res |-> r.st.tag]

\* the caller takes render's result; a panic ends the process
TxReturn ==
    /\ ~TxIdle
    /\ txOp.res # "panic"
    /\ txOp' = NoTxOp
    /\ UNCHANGED <<textRenderer, rasterized>>

----------------------------------------------------------------------------
(* Specifications *)

InitCpu == CpuStart /\ IterAtRest /\ TexAtRest /\ ShaderAtRest /\ RenderAtRest /\ OnceAtRest /\ TextAtRest

NextCpu ==
    \/ CpuReturn /\ range2d' = NoRange2d /\ UNCHANGED besidesCpu
    \/ DoIndex /\ UNCHANGED <<iterVars, besidesCpu>>
    \/ DoIndexMut /\ UNCHANGED <<iterVars, besidesCpu>>
    \/ DoGetClamped /\ UNCHANGED <<iterVars, besidesCpu>>
    \/ DoGetWrapped /\ UNCHANGED <<iterVars, besidesCpu>>
    \/ DoData /\ UNCHANGED <<iterVars, besidesCpu>>
    \/ DoIntoIter /\ UNCHANGED <<iterVars, besidesCpu>>
    \/ DoNew /\ UNCHANGED <<iterVars, besidesCpu>>
    \/ DoIterIndex /\ UNCHANGED besidesCpu
    \/ DoRange2dNext /\ UNCHANGED besidesCpu

SpecCpu == InitCpu /\ [][NextCpu]_vars

InitTex == CpuAtRest /\ IterAtRest /\ TexStart /\ ShaderAtRest /\ RenderAtRest /\ OnceAtRest /\ TextAtRest

NextTex ==
    \/ TexReturn /\ UNCHANGED besidesTex
    \/ TextureNew /\ UNCHANGED besidesTex
    \/ TextureUpload /\ UNCHANGED besidesTex
    \/ TextureDownload /\ UNCHANGED besidesTex
    \/ TextureDrop /\ UNCHANGED besidesTex

SpecTex == InitTex /\ [][NextTex]_vars

InitShader == CpuAtRest /\ IterAtRest /\ TexAtRest /\ ShaderStart /\ RenderAtRest /\ OnceAtRest /\ TextAtRest

NextShader ==
    \/ ShReturn /\ UNCHANGED besidesShader
    \/ DoCreateShader /\ UNCHANGED besidesShader
    \/ DoCreateProgram /\ UNCHANGED besidesShader
    \/ DoCreateComputeProgram /\ UNCHANGED besidesShader
    \/ DoCreateVertFragProgram /\ UNCHANGED besidesShader
    \/ DoImplNew /\ UNCHANGED besidesShader

SpecShader == InitShader /\ [][NextShader]_vars

InitRender == CpuAtRest /\ IterAtRest /\ TexAtRest /\ ShaderAtRest /\ RenderStart /\ OnceAtRest /\ TextAtRest

NextRender ==
    \/ RdReturn /\ UNCHANGED besidesRender
    \/ DoGo /\ UNCHANGED besidesRender

SpecRender == InitRender /\ [][NextRender]_vars

InitOnce ==
    /\ CpuAtRest /\ IterAtRest /\ TexAtRest /\ ShaderAtRest /\ RenderAtRest
    /\ OnceStart /\ TextAtRest

NextOnce ==
    \/ \E t \in Threads : Begin(t) /\ UNCHANGED besidesOnce
    \/ \E t \in Threads : EnterTexture1x1(t) /\ UNCHANGED besidesOnce
    \/ \E t \in Threads : CallOnce(t) /\ UNCHANGED besidesOnce
    \/ \E t \in Threads : InitNew(t) /\ UNCHANGED besidesOnce
    \/ \E t \in Threads : InitUpload(t) /\ UNCHANGED besidesOnce
    \/ \E t \in Threads : InitStore(t) /\ UNCHANGED besidesOnce
    \/ \E t \in Threads : InitDone(t) /\ UNCHANGED besidesOnce
    \/ \E t \in Threads : ReadVal(t) /\ UNCHANGED besidesOnce
    \/ \E t \in Threads : LineGo(t) /\ UNCHANGED besidesOnce

SpecOnce == InitOnce /\ [][NextOnce]_vars

InitText ==
    /\ CpuAtRest /\ IterAtRest /\ TexAtRest /\ ShaderAtRest /\ RenderAtRest
    /\ OnceAtRest /\ TextStart

NextText ==
    \/ TxReturn /\ UNCHANGED besidesText
    \/ DoRender /\ UNCHANGED besidesText

SpecText == InitText /\ [][NextText]_vars

----------------------------------------------------------------------------
(* Claims about CpuTexture *)

CpuW == cpuOp.before.size[1]
CpuH == cpuOp.before.size[2]

\* C1: for x < width and y < height, buffer[(x, y)] read through Index is
\* data[y*width + x], and a store through IndexMut changes exactly that
\* element; for x >= width or y >= height both panic and touch nothing, also
\* when trailing padding makes the flat offset a valid position of the vector.
C1_IndexIsRowMajorOrPanics ==
    LET o == cpuOp.op
        b == cpuOp.before
    IN  /\ o.name = "index" =>
              IF o.x < CpuW /\ o.y < CpuH
              THEN o.res = Ok(b.data[o.y * CpuW + o.x + 1]) /\ cpu = b
              ELSE o.res = Panic /\ cpu = b
        /\ o.name = "index_mut" =>
              IF o.x < CpuW /\ o.y < CpuH
              THEN /\ o.res.tag = "ok"
                   /\ cpu.size = b.size
                   /\ cpu.data = [b.data EXCEPT ![o.y * CpuW + o.x + 1] = o.v]
              ELSE o.res = Panic /\ cpu = b

\* an out-of-range column whose flat offset lies inside the padded vector
C1_Witness ==
    /\ cpuOp.op.name \in {"index", "index_mut"}
    /\ cpuOp.op.x >= CpuW
    /\ cpuOp.op.y < CpuH
    /\ cpuOp.op.y * CpuW + cpuOp.op.x < Len(cpuOp.before.data)
    /\ Len(cpuOp.before.data) > CpuW * CpuH
    /\ cpuOp.op.res = Panic

\* C2: with width >= 1 and height >= 1, get_clamped(x, y) never fails and is
\* buffer[(cx, cy)] for cx = min(max(x, 0), width-1), cy = min(max(y, 0),
\* height-1); for in-bounds (x, y) that is buffer[(x, y)].
C2_GetClampedIsNearestElement ==
    LET o == cpuOp.op
        b == cpuOp.before
        cx == Min(Max(o.x, 0), CpuW - 1)
        cy == Min(Max(o.y, 0), CpuH - 1)
    IN  (o.name = "get_clamped" /\ CpuW >= 1 /\ CpuH >= 1) =>
            /\ o.res.tag = "ok"
            /\ o.res = Ok(b.data[cy * CpuW + cx + 1])
            /\ (0 <= o.x /\ o.x < CpuW /\ 0 <= o.y /\ o.y < CpuH) =>
                   o.res = Ok(b.data[o.y * CpuW + o.x + 1])

\* a sample left of and below a buffer with more than one row and column
C2_Witness ==
    /\ cpuOp.op.name = "get_clamped"
    /\ CpuW >= 2 /\ CpuH >= 2
    /\ cpuOp.op.x < 0
    /\ cpuOp.op.y >= CpuH
    /\ cpuOp.op.res.tag = "ok"

\* C3: with width >= 1 and height >= 1, get_wrapped(x, y) is the element
\* get_wrapped(x + width, y + height) returns, negative x and y included, and
\* for in-bounds (x, y) it is buffer[(x, y)].
C3_GetWrappedIsPeriodic ==
    LET o == cpuOp.op
        b == cpuOp.before
    IN  (o.name = "get_wrapped" /\ CpuW >= 1 /\ CpuH >= 1) =>
            /\ o.res.tag = "ok"
            /\ o.res = GetWrapped(b, o.x + CpuW, o.y + CpuH)
            /\ (0 <= o.x /\ o.x < CpuW /\ 0 <= o.y /\ o.y < CpuH) =>
                   o.res = Ok(b.data[o.y * CpuW + o.x + 1])

\* a negative coordinate whose shift by the size is in bounds
C3_Witness ==
    /\ cpuOp.op.name = "get_wrapped"
    /\ CpuW >= 2 /\ CpuH >= 2
    /\ cpuOp.op.x < 0 /\ cpuOp.op.x + CpuW >= 0
    /\ cpuOp.op.y < 0
    /\ cpuOp.op.res.tag = "ok"

\* the elements of the buffer's logical region, the first width*height
LogicalElems(t) == { t.data[i] : i \in 1..(t.size[1] * t.size[2]) }

\* C18: every read of a CpuTexture exposes its logical region only: data(),
\* indexing, get_clamped, get_wrapped and the iteration over &CpuTexture yield
\* only elements among the first width*height of the vector, the iteration
\* yields exactly width*height of them, and CpuTexture::new rejects every
\* vector shorter than width*height.
C18_ReadsStayInLogicalRegion ==
    LET o == cpuOp.op
        b == cpuOp.before
        n == CpuW * CpuH
    IN  /\ o.name = "data" => o.res.val = SubSeq(b.data, 1, n)
        /\ (o.name \in {"index", "get_clamped", "get_wrapped"} /\ o.res.tag = "ok") =>
               o.res.val \in LogicalElems(b)
        /\ o.name = "into_iter" =>
               /\ Len(o.res.val) = n
               /\ o.res.val = SubSeq(b.data, 1, n)
        /\ (o.name = "new" /\ Len(b.data) < o.x * o.y) =>
               o.res.tag = "panic" /\ cpu = b

\* what the code has instead: the iteration walks the whole vector, padding
\* included; the other reads stay inside the logical region
IterationWalksWholeVector ==
    LET o == cpuOp.op
        b == cpuOp.before
        n == CpuW * CpuH
    IN  /\ o.name = "data" => o.res.val = SubSeq(b.data, 1, n)
        /\ (o.name \in {"index", "get_clamped", "get_wrapped"} /\ o.res.tag = "ok") =>
               o.res.val \in LogicalElems(b)
        /\ o.name = "into_iter" => o.res.val = b.data
        /\ (o.name = "new" /\ Len(b.data) < o.x * o.y) =>
               o.res.tag = "panic" /\ cpu = b

\* the pairs (x, y) with x < w and y < h in row-major order
RECURSIVE RowMajor(_, _, _)
RowMajor(w, h, k) ==
    IF k >= w * h THEN <<>>
    ELSE <<<<k % w, k \div w>>>> \o RowMajor(w, h, k + 1)

\* C19: for every size, width = 0 and height = 0 included, iter_index()
\* terminates and yields exactly the pairs (x, y) with x < width and
\* y < height, once each, in row-major order; there are width * height of
\* them, the number size_hint reports, and each of them indexes the buffer
\* (buffer[(x, y)]) without failing.
C19_IterIndexYieldsEachCoordinateOnce ==
    cpuOp.op.name = "iter_index" =>
        LET w == range2d.it.size[1]
            h == range2d.it.size[2]
            out == range2d.out
        IN  /\ range2d.hint = w * h
            /\ Len(out) <= w * h
            /\ out = SubSeq(RowMajor(w, h, 0), 1, Len(out))
            /\ \A i \in 1..Len(out) : Index(cpu, out[i][1], out[i][2]).tag = "ok"
            /\ range2d.done => Len(out) = range2d.hint

\* what the code has instead: the claim for the sizes with width >= 1 or
\* height = 0; a buffer of width 0 and height h >= 1 yields the h pairs
\* (0, 0) .. (0, h-1) while size_hint reports 0
IterIndexWhenWidthPositive ==
    cpuOp.op.name = "iter_index" =>
        LET w == range2d.it.size[1]
            h == range2d.it.size[2]
            out == range2d.out
        IN  IF w >= 1 \/ h = 0
            THEN /\ range2d.hint = w * h
                 /\ out = SubSeq(RowMajor(w, h, 0), 1, Len(out))
                 /\ \A i \in 1..Len(out) : Index(cpu, out[i][1], out[i][2]).tag = "ok"
                 /\ range2d.done => Len(out) = range2d.hint
            ELSE /\ range2d.hint = 0
                 /\ Len(out) <= h
                 /\ \A i \in 1..Len(out) : out[i] = <<0, i - 1>>
                 /\ range2d.done => Len(out) = h

----------------------------------------------------------------------------
(* Claims about Texture<T> *)

\* the rows of a w x h transfer of T lie back to back in client memory
RowsPacked(ty, w, h) == h <= 1 \/ RowStride(ty, w) = w

\* a download that directly follows a successful upload to the same texture,
\* with no error raised by the driver on its own
ChainedDownload == texOp.name = "download" /\ texOp.chained /\ texOp.fault = "none"

\* C4: for every pixel type and every size >= 1x1, a download that directly
\* follows a successful upload of a same-sized buffer returns a CpuTexture of
\* the texture's size whose width*height elements are, in order, the first
\* width*height elements of the uploaded buffer, padded or not.
C4_UploadDownloadRoundTrip ==
    ChainedDownload =>
        /\ texOp.res.tag = "ok"
        /\ texOp.res.val.size = texOp.size
        /\ Data(texOp.res.val) = texOp.arg.data

\* the round trip as the code has it: it holds for the transfers whose rows
\* are packed, which leaves out u16 textures of odd width and several rows
RoundTripWhenRowsPacked ==
    (ChainedDownload /\ RowsPacked(texOp.ty, texOp.size[1], texOp.size[2])) =>
        /\ texOp.res.tag = "ok"
        /\ texOp.res.val.size = texOp.size
        /\ Data(texOp.res.val) = texOp.arg.data

\* C5: an upload of a CpuTexture whose size differs from the texture's returns
\* an error value to the caller without aborting, issues no GPU transfer, and
\* leaves the texture's GPU contents and size unchanged.
C5_SizeMismatchIsReturnedError ==
    [][ (texOp'.name = "upload" /\ texOp'.arg.size # texOp'.size) =>
            /\ texOp'.res.tag = "err"
            /\ ~texOp'.transfer
            /\ glTex' = glTex
            /\ texs' = texs ]_vars

\* C6: every texture name Texture::new allocated is released exactly once:
\* a name owned by a live Texture value not yet, every other name once (by the
\* drop of its Texture, or by Texture::new itself when it returns an error
\* after the allocation), and none twice.
C6_HandleReleasedExactlyOnce ==
    \A h \in Handles :
        glTex[h].state # "free" =>
            IF \E tex \in texs : tex.id = h
            THEN glTex[h].deletes = 0
            ELSE glTex[h].deletes = 1

----------------------------------------------------------------------------
(* Claims about the shader and program compiler *)

CompilerOps == {"create_shader", "create_program", "create_compute_program",
                "create_vert_frag_program"}

\* the driver raised no error of its own during the last operation
NoFaults == \A i \in 1..Len(shOp.faults) : shOp.faults[i] = "none"

Called(call) == { i \in 1..Len(shOp.calls) : shOp.calls[i].call = call }
CalledFor(call, stage) ==
    { i \in Called(call) : shOp.calls[i].stage = stage }

\* the unit whose compile or link failed in the last operation, by what the
\* driver made of the operation's inputs: the first failing stage, else the
\* link, else "none"
FailedUnit ==
    IF \E i \in 1..Len(shOp.stages) : shOp.stages[i].outcome = "fail"
    THEN LET i == CHOOSE j \in 1..Len(shOp.stages) :
                    /\ shOp.stages[j].outcome = "fail"
                    /\ \A k \in 1..(j - 1) : shOp.stages[k].outcome # "fail"
         IN  shOp.stages[i].stage
    ELSE IF shOp.name = "create_program"
         THEN IF /\ \A n \in shOp.given : n \in 1..(objNext - 1) /\ glObjs[n].kind = "shader"
                 /\ (shOp.link = "fail" \/ \E n \in shOp.given : ~glObjs[n].compiled)
              THEN "link" ELSE "none"
         ELSE IF shOp.link = "fail" THEN "link" ELSE "none"

\* C7: create_program deletes the shader objects it was given only when the
\* link succeeded; after a failed link none of them has been deleted.
C7_ShadersDeletedOnlyOnLinkSuccess ==
    shOp.name = "create_program" =>
        /\ Called("DeleteShader") # {} => (NoFaults => shOp.res.success)
        /\ (shOp.res.tag = "ok" /\ ~shOp.res.success) =>
               /\ Called("DeleteShader") = {}
               /\ \A n \in shOp.given : ~glObjs[n].deleteFlag

\* C8: a failed compile or link never aborts the process: create_shader,
\* create_program, create_compute_program and create_vert_frag_program return
\* a value with success = false and the failing unit's log, and
\* TextureRenderer construction does not panic either.
C8_CompileFailureNeverPanics ==
    (shOp.name # "none" /\ NoFaults /\ FailedUnit # "none") =>
        /\ shOp.res.tag # "panic"
        /\ shOp.name \in CompilerOps =>
               /\ shOp.res.tag = "ok"
               /\ ~shOp.res.success
               /\ shOp.res.log = InfoLog(FailedUnit, "fail")

\* C9: create_vert_frag_program works in the order vertex, fragment, link and
\* stops at the first failing stage: after a failed vertex compile no fragment
\* shader is compiled and no program is created or linked, and the vertex log
\* is returned; after a failed fragment compile no program is created or
\* linked, and the fragment log is returned; a link is attempted only after
\* both compiles, in that order, succeeded.
C9_VertFragShortCircuits ==
    shOp.name = "create_vert_frag_program" =>
        LET v == shOp.stages[1].outcome
            f == shOp.stages[2].outcome
            vRan == shOp.faults[1] = "none"
            fRan == vRan /\ v # "fail" /\ shOp.faults[2] = "none"
        IN  /\ (vRan /\ v = "fail") =>
                   /\ Called("CreateShader") = CalledFor("CreateShader", "vertex")
                   /\ CalledFor("CompileShader", "fragment") = {}
                   /\ Called("CreateProgram") = {}
                   /\ Called("LinkProgram") = {}
                   /\ shOp.res = Compiled(0, FALSE, InfoLog("vertex", "fail"))
            /\ (fRan /\ f = "fail") =>
                   /\ Called("CreateProgram") = {}
                   /\ Called("LinkProgram") = {}
                   /\ shOp.res = Compiled(0, FALSE, InfoLog("fragment", "fail"))
            /\ \A l \in Called("LinkProgram") :
                   /\ fRan /\ f # "fail"
                   /\ \E a \in CalledFor("CompileShader", "vertex"),
                         b \in CalledFor("CompileShader", "fragment") :
                          /\ a < b /\ b < l
                          /\ glObjs[shOp.calls[a].obj].compiled
                          /\ glObjs[shOp.calls[b].obj].compiled

\* the vertex stage compiled with a warning and the fragment stage failed
C9_Witness ==
    /\ shOp.name = "create_vert_frag_program"
    /\ NoFaults
    /\ shOp.stages[1].outcome = "warn"
    /\ shOp.stages[2].outcome = "fail"
    /\ CalledFor("CompileShader", "fragment") # {}
    /\ shOp.res = Compiled(0, FALSE, InfoLog("fragment", "fail"))

\* C10: every CompileResult returned with success = false by create_shader,
\* create_program, create_compute_program or create_vert_frag_program carries
\* the handle 0.
C10_FailedResultHasHandleZero ==
    (shOp.name \in CompilerOps /\ shOp.res.tag = "ok" /\ ~shOp.res.success) =>
        shOp.res.shader = 0

\* what the code has instead: the handle is 0 exactly when the failure is a
\* compile failure seen by create_compute_program or create_vert_frag_program;
\* create_shader and create_program return the object they made
FailedResultHandle ==
    (shOp.name \in CompilerOps /\ shOp.res.tag = "ok" /\ ~shOp.res.success) =>
        IF shOp.name \in {"create_compute_program", "create_vert_frag_program"}
           /\ FailedUnit # "link"
        THEN shOp.res.shader = 0
        ELSE shOp.res.shader \in 1..(objNext - 1)

----------------------------------------------------------------------------
(* Claims about RenderBuilder::go *)

\* the arguments of the uniform call go made for the location loc
Sent(loc) ==
    LET i == CHOOSE j \in 1..Len(rdOp.calls) :
                 /\ rdOp.calls[j].call \in {"Uniform4f", "Uniform2f"}
                 /\ rdOp.calls[j].args[1] = loc
    IN  Tail(rdOp.calls[i].args)

UnitRect == <<F32(0), F32(0), F32(1), F32(1)>>

\* C11: for a texture and a screen of non-zero width and height, go() on a
\* builder without src() sends the source uniform (0, 0, 1, 1), the one
\* src(Rect(0, 0, texture_width, texture_height)) sends, and without dst() the
\* destination uniform (0, 0, 1, 1), the one dst(Rect(0, 0, screen_width,
\* screen_height)) sends; without tint() it sends the tint (1, 1, 1, 1) and
\* without scale_offset() the scale/offset (1, 0).
C11_DefaultsAreTheUnitRect ==
    rdOp.name = "go" =>
        LET t == rdOp.texture
            sc == rdOp.screen_size
        IN  /\ (rdOp.src = None /\ t.size[1] # 0 /\ t.size[2] # 0) =>
                   /\ Sent("src_pos_size") = UnitRect
                   /\ Sent("src_pos_size") =
                        SrcPosSize(Rect(F32(0), F32(0), F32(t.size[1]), F32(t.size[2])), t)
            /\ (rdOp.dst = None /\ sc[1] # F32(0) /\ sc[2] # F32(0)) =>
                   /\ Sent("dst_pos_size") = UnitRect
                   /\ Sent("dst_pos_size") =
                        DstPosSize(Rect(F32(0), F32(0), sc[1], sc[2]), sc)
            /\ rdOp.tint = None => Sent("tint") = <<F32(1), F32(1), F32(1), F32(1)>>
            /\ rdOp.scale_offset = None => Sent("scale_offset") = <<F32(1), F32(0)>>

\* a bare builder on a texture and a screen that are not square
C11_Witness ==
    /\ rdOp.name = "go"
    /\ rdOp.src = None /\ rdOp.dst = None /\ rdOp.tint = None /\ rdOp.scale_offset = None
    /\ rdOp.texture.size = <<1, 2>>
    /\ rdOp.screen_size = <<F32(2), F32(1)>>
    /\ rdOp.res = "ok"
    /\ Sent("src_pos_size") = UnitRect

\* the positions of the calls of go that are `call` with the arguments args
GoCalls(call, args) ==
    { i \in 1..Len(rdOp.calls) : rdOp.calls[i].call = call /\ rdOp.calls[i].args = args }

\* C12: every go(), returning Ok or an error, issues exactly one draw, of a
\* 4-vertex triangle strip, with the renderer's program in use and the given
\* texture bound; the binds come before the draw and the unbinds after it,
\* and when go returns no program, 2D texture or vertex array is bound.
C12_GoBindsDrawsUnbinds ==
    rdOp.name = "go" =>
        LET cs == rdOp.calls
            draws == { i \in 1..Len(cs) : cs[i].call = "DrawArrays" }
            r == rdOp.renderer
        IN  /\ rdOp.res \in {"ok", "err"}
            /\ Cardinality(draws) = 1
            /\ \A d \in draws :
                   /\ cs[d].args = <<"TRIANGLE_STRIP", 0, 4>>
                   /\ cs[d].bound = [program |-> r.program,
                                     texture2d |-> rdOp.texture.id,
                                     vertexArray |-> r.dummy_buffer]
                   /\ \E i \in GoCalls("UseProgram", <<r.program>>) : i < d
                   /\ \E i \in GoCalls("BindTexture", <<"TEXTURE_2D", rdOp.texture.id>>) : i < d
                   /\ \E i \in GoCalls("BindVertexArray", <<r.dummy_buffer>>) : i < d
                   /\ \E i \in GoCalls("UseProgram", <<0>>) : i > d
                   /\ \E i \in GoCalls("BindTexture", <<"TEXTURE_2D", 0>>) : i > d
                   /\ \E i \in GoCalls("BindVertexArray", <<0>>) : i > d
            /\ glBound = Unbound

\* a go() that returns the error the draw raised
C12_Witness ==
    /\ rdOp.name = "go"
    /\ rdOp.fault = "DrawArrays"
    /\ rdOp.res = "err"
    /\ GoCalls("DrawArrays", <<"TRIANGLE_STRIP", 0, 4>>) # {}
    /\ glBound = Unbound

----------------------------------------------------------------------------
(* Claims about texture1x1 *)

\* the threads a texture1x1() call has returned a reference to
Returned == { t \in Threads : threads[t].ret # 0 }

\* C13: over every interleaving of texture1x1() calls of the threads, direct
\* or through line_x, line_y and rect, the 1x1 white texture is created once
\* and uploaded once, never a second time; a call returns only after the
\* initialization has completed, every call returns that one texture, and the
\* texture stays what the initialization made it: live and white.
C13_Texture1x1InitializedOnce ==
    /\ Len(whites) <= 1
    /\ \A i \in 1..Len(whites) : whites[i].uploads <= 1
    /\ \A t \in Returned :
           /\ once = "complete"
           /\ val1x1 = Some(threads[t].ret)
           /\ Len(whites) = 1
           /\ whites[threads[t].ret].uploads = 1
    /\ \A t, u \in Returned : threads[t].ret = threads[u].ret
    /\ once = "complete" =>
           /\ val1x1 # None
           /\ whites[val1x1[1]] = [state |-> "live", texels |-> <<White>>, uploads |-> 1]

\* every thread holds the reference; one of them is drawing a line with it,
\* another has returned to its caller
C13_Witness ==
    /\ Returned = Threads
    /\ \E t \in Threads : threads[t].pc = "go"
    /\ \E t \in Threads : threads[t].pc = "idle"
    /\ Len(whites) = 1
    /\ whites[1].texels = <<White>>

----------------------------------------------------------------------------
(* Claims about TextRenderer *)

TxAtlas == textRenderer.atlas
TxFont == textRenderer.font

\* C14: over every sequence of render calls on one TextRenderer, a character
\* is rasterized into an atlas entry at most once: its first successful
\* request creates the entry, every later request gets that same entry and
\* creates no texture, no entry is removed or replaced, and a request that
\* fails inserts no entry.
C14_AtlasEntryCreatedOnce ==
    /\ \A ch \in AtlasChars :
           /\ rasterized[ch] <= 1
           /\ TxAtlas[ch] # NoEntry <=> rasterized[ch] = 1
    /\ txOp.name = "render" =>
           /\ \A ch \in AtlasChars :
                  /\ txOp.before[ch] # NoEntry => TxAtlas[ch] = txOp.before[ch]
                  /\ txOp.failed = ch => TxAtlas[ch] = NoEntry
           /\ \A j \in 1..Len(txOp.draws) :
                  txOp.draws[j].texture = TxAtlas[txOp.draws[j].ch].texture

\* a render that draws "A" from the entry an earlier render made and then
\* fails to rasterize "B"
C14_Witness ==
    /\ txOp.name = "render"
    /\ txOp.before["A"] # NoEntry
    /\ \E j \in 1..Len(txOp.draws) : txOp.draws[j].ch = "A"
    /\ txOp.res = "err"
    /\ txOp.failed = "B"
    /\ TxAtlas["B"] = NoEntry

\* the number of line breaks before the i-th character of the text
NewlinesBefore(text, i) == Cardinality({ j \in 1..(i - 1) : text[j] = "\n" })

\* C15: a line break draws nothing, puts the cursor's x back to position.x
\* and moves its y down by spacing: a glyph that follows k line breaks is drawn
\* with cursor y = position.y + k * spacing, a glyph right after a line break
\* with cursor x = position.x, and "A\nB" at (0, 0) gives two draws, the first
\* with cursor (0, 0) and the second with cursor (0, spacing).
C15_NewlineResetsXAdvancesY ==
    txOp.name = "render" =>
        /\ \A j \in 1..Len(txOp.draws) :
               LET d == txOp.draws[j] IN
               /\ d.ch # "\n"
               /\ d.y = txOp.position[2]
                         + NewlinesBefore(txOp.text, d.at) * textRenderer.spacing
               /\ (d.at > 1 /\ txOp.text[d.at - 1] = "\n") => d.x = txOp.position[1]
        /\ (txOp.text = <<"A", "\n", "B">> /\ txOp.position = <<0, 0>> /\ txOp.res = "ok") =>
               /\ Len(txOp.draws) = 2
               /\ txOp.draws[1].x = 0 /\ txOp.draws[1].y = 0
               /\ txOp.draws[2].x = 0 /\ txOp.draws[2].y = textRenderer.spacing

\* "A\nB" rendered at (0, 0)
C15_Witness ==
    /\ txOp.name = "render"
    /\ txOp.text = <<"A", "\n", "B">>
    /\ txOp.position = <<0, 0>>
    /\ txOp.res = "ok"
    /\ Len(txOp.draws) = 2
    /\ txOp.draws[2].y = textRenderer.spacing

\* ch has a glyph that can be drawn
HasDrawableGlyph(ch) == ch \notin {" ", "\n"} /\ Glyph(TxFont, ch).bb

\* the cursor's x before the i-th character, if the space and every character
\* without a drawable glyph advance it by the stride of "*"
RECURSIVE ClaimedCursorX(_, _, _)
ClaimedCursorX(text, position, i) ==
    IF i = 1 THEN position[1]
    ELSE LET prev == text[i - 1] IN
         IF prev = "\n" THEN position[1]
         ELSE IF HasDrawableGlyph(prev)
         THEN ClaimedCursorX(text, position, i - 1) + Glyph(TxFont, prev).advance
         ELSE ClaimedCursorX(text, position, i - 1) + Glyph(TxFont, "*").advance

\* the characters the last render drew, in order
DrawnChars == [j \in 1..Len(txOp.draws) |-> txOp.draws[j].ch]

\* C16: the space and every character without a drawable glyph advance the
\* cursor's x by the stride of "*", draw nothing, and do not make render fail
\* or abort; exactly the characters with a drawable glyph are drawn.
C16_SpaceAndUnknownAdvanceWithoutDraw ==
    (txOp.name = "render" /\ txOp.fault = "none") =>
        /\ txOp.res = "ok"
        /\ DrawnChars = SelectSeq(txOp.text, HasDrawableGlyph)
        /\ \A j \in 1..Len(txOp.draws) :
               txOp.draws[j].x = ClaimedCursorX(txOp.text, txOp.position, txOp.draws[j].at)

\* what the code has instead: the claim for the texts of letters, spaces and
\* line breaks; a character whose glyph has no bounding box aborts render
SpaceAdvancesUnknownPanics ==
    (txOp.name = "render" /\ txOp.fault = "none") =>
        IF \A i \in 1..Len(txOp.text) : txOp.text[i] # "\t"
        THEN /\ txOp.res = "ok"
             /\ DrawnChars = SelectSeq(txOp.text, HasDrawableGlyph)
             /\ \A j \in 1..Len(txOp.draws) :
                    txOp.draws[j].x
                      = ClaimedCursorX(txOp.text, txOp.position, txOp.draws[j].at)
        ELSE txOp.res = "panic" /\ txOp.failed = "\t"

SetMax(S) == CHOOSE m \in S : \A n \in S : n <= m

\* C17: the rectangle render returns starts at the position; its height is
\* the largest (cursor y + y_pos + texture height) of a drawn glyph minus
\* position.y, so that it holds the bottom edge of every drawn glyph's
\* destination rectangle, its width is the largest cursor x after a drawn
\* glyph minus position.x, and without a drawn glyph it is 0 x 0.
C17_RectCoversDrawnGlyphs ==
    (txOp.name = "render" /\ txOp.res = "ok") =>
        LET ds == txOp.draws
            bottom(d) == d.y + TxAtlas[d.ch].y_pos + d.texture.size[2]
            right(d) == d.x + TxAtlas[d.ch].stride
        IN  /\ txOp.rect.x = txOp.position[1]
            /\ txOp.rect.y = txOp.position[2]
            /\ IF ds = <<>>
               THEN txOp.rect.width = 0 /\ txOp.rect.height = 0
               ELSE /\ txOp.rect.height
                         = SetMax({ bottom(ds[j]) : j \in 1..Len(ds) }) - txOp.position[2]
                    /\ txOp.rect.width
                         = SetMax({ right(ds[j]) : j \in 1..Len(ds) }) - txOp.position[1]
                    /\ \A j \in 1..Len(ds) :
                           bottom(ds[j]) <= txOp.rect.y + txOp.rect.height

\* what the code has instead: the height is taken from the widths of the
\* drawn glyphs' textures
RectHeightFromGlyphWidth ==
    (txOp.name = "render" /\ txOp.res = "ok") =>
        LET ds == txOp.draws
            reach(d) == d.y + TxAtlas[d.ch].y_pos + d.texture.size[1]
            right(d) == d.x + TxAtlas[d.ch].stride
        IN  /\ txOp.rect.x = txOp.position[1]
            /\ txOp.rect.y = txOp.position[2]
            /\ IF ds = <<>>
               THEN txOp.rect.width = 0 /\ txOp.rect.height = 0
               ELSE /\ txOp.rect.height
                         = SetMax({ reach(ds[j]) : j \in 1..Len(ds) }) - txOp.position[2]
                    /\ txOp.rect.width
                         = SetMax({ right(ds[j]) : j \in 1..Len(ds) }) - txOp.position[1]

====
